---- MODULE Spec2Model ----
(***************************************************************************)
(* Model of launch_ros.actions.SetParametersFromFiles                      *)
(* (src/launch_ros/launch_ros/actions/set_parameters_from_files.py).       *)
(*                                                                         *)
(* Python lists are objects: launch_configurations['global_params'] holds  *)
(* a reference to a list, and list.append mutates the object every holder  *)
(* of the reference sees.  The model therefore keeps a heap of list        *)
(* objects, and the configuration mapping holds an index into the heap.    *)
(***************************************************************************)
EXTENDS Integers, Sequences, FiniteSets, TLC

VARIABLES
    heap,                   \* list objects: heap[i] is the content of list i
    launch_configurations,  \* context.launch_configurations, key 'global_params'
    stack,                  \* saved configuration mappings of the open scopes
    environ,                \* value of the environment variable ENV_VAR
    actions,                \* the SetParametersFromFiles objects of the description
    nExec,                  \* number of execute() calls made so far
    nScopes,                \* number of group scopes entered so far
    phase,                  \* "build": the description is being built; "run": it is being executed
    last,                   \* history: the operation that produced this state
    hist,                   \* history: successful execute() calls since `base`
    saved                   \* history: global_params as seen by a node when each open scope was entered

vars == <<heap, launch_configurations, stack, environ, actions, nExec, nScopes, phase, last, hist, saved>>

-----------------------------------------------------------------------------
(* Bounds of the model *)

MaxExec == 3        \* execute() calls in one behaviour
MaxScopes == 1      \* group scopes entered in one behaviour

-----------------------------------------------------------------------------
(* Values *)

\* The key 'global_params' is not in the mapping.
Absent == 0

\* ENV_VAR is not set in the environment.
Unset == "<unset>"

EnvValues == {Unset, "/etc/p.yaml", "q.yaml"}

\* the value of ENV_VAR while the launch description is built
BuildEnv == "/etc/p.yaml"

ActionIds == {"A", "B"}

Sub(kind, arg) == [kind |-> kind, arg |-> arg]

TextSubstitution(text) == Sub("TextSubstitution", text)

\* launch.substitutions.EnvironmentVariable('ENV_VAR'), no default value
EnvironmentVariable == Sub("EnvironmentVariable", "ENV_VAR")

\* A user-defined Substitution whose perform(context) assigns
\* context.launch_configurations['global_params'] = [arg] and returns arg.
ConfigWriter(arg) == Sub("ConfigWriter", arg)

SubstitutionKinds == {"TextSubstitution", "EnvironmentVariable", "ConfigWriter"}

\* Python values given as one element of `filenames` (SomeSubstitutionsType,
\* or something that is not one): a str, a Substitution, a list of them, an int.
PyStr(s) == [type |-> "str", elems |-> <<Sub("str", s)>>]
PySub(s) == [type |-> "Substitution", elems |-> <<s>>]
PyList(l) == [type |-> "list", elems |-> l]
PyInt(n) == [type |-> "int", elems |-> <<Sub("int", n)>>]

\* The `filenames` arguments the constructor is called with.
Filenames ==
    { <<>>,
      <<PyStr("x.yaml")>>,
      <<PyStr("b.yaml"), PyStr("a.yaml"), PyStr("b.yaml")>>,
      <<PyStr("y.yaml"), PyList(<<EnvironmentVariable, Sub("str", ".bak")>>)>>,
      <<PyStr("x.yaml"), PySub(ConfigWriter("w.yaml"))>>,
      <<PyInt("7")>>,
      <<PyStr("x.yaml"), PyInt("7")>> }

\* The `filename` attribute of a <set_parameters_from_files> entity.
EntityAttrs == {"${ENV_VAR}", "x.yaml"}

Ok(v) == [ok |-> TRUE, val |-> v]
Raise == [ok |-> FALSE, val |-> <<>>]

NotBuilt == [built |-> FALSE, input_files |-> <<>>, args |-> <<>>]

\* global_params as a consumer reads it: .get('global_params', [])
Value(cfg, h) == IF cfg.global_params = Absent THEN <<>> ELSE h[cfg.global_params]

-----------------------------------------------------------------------------
(* launch.utilities.normalize_to_list_of_substitutions *)

RECURSIVE NormalizeElems(_)
NormalizeElems(elems) ==
    IF elems = <<>> THEN Ok(<<>>)
    ELSE LET x == Head(elems)
             rest == NormalizeElems(Tail(elems))
         IN  IF x.kind = "str"
             THEN IF rest.ok THEN Ok(<<TextSubstitution(x.arg)>> \o rest.val) ELSE Raise
             ELSE IF x.kind \in SubstitutionKinds
             THEN IF rest.ok THEN Ok(<<x>> \o rest.val) ELSE Raise
             ELSE Raise

normalize_to_list_of_substitutions(subs) ==
    IF subs.type = "str" THEN Ok(<<TextSubstitution(subs.elems[1].arg)>>)
    ELSE IF subs.type = "Substitution" THEN Ok(<<subs.elems[1]>>)
    ELSE IF subs.type = "list" THEN NormalizeElems(subs.elems)
    ELSE Raise

-----------------------------------------------------------------------------
(* Substitution.perform and launch.utilities.perform_substitutions.        *)
(* A context is [cfg, heap, env]; perform may read and write it.           *)

Ctx(cfg, h, env) == [cfg |-> cfg, heap |-> h, env |-> env]

\* perform(context) of one substitution: [ok, str, ctx, wrote]
perform(sub, ctx) ==
    IF sub.kind = "TextSubstitution"
    THEN [ok |-> TRUE, str |-> sub.arg, ctx |-> ctx, wrote |-> Absent]
    ELSE IF sub.kind = "EnvironmentVariable"
    THEN IF ctx.env = Unset
         THEN [ok |-> FALSE, str |-> "", ctx |-> ctx, wrote |-> Absent]
         ELSE [ok |-> TRUE, str |-> ctx.env, ctx |-> ctx, wrote |-> Absent]
    ELSE LET id == Len(ctx.heap) + 1
         IN  [ok |-> TRUE, str |-> sub.arg,
              ctx |-> [ctx EXCEPT !.heap = Append(ctx.heap, <<sub.arg>>),
                                  !.cfg = [global_params |-> id]],
              wrote |-> id]

\* ''.join([sub.perform(context) for sub in subs])
RECURSIVE perform_substitutions(_, _)
perform_substitutions(ctx, subs) ==
    IF subs = <<>> THEN [ok |-> TRUE, str |-> "", ctx |-> ctx, wrote |-> Absent]
    ELSE LET r == perform(Head(subs), ctx)
         IN  IF ~r.ok THEN r
             ELSE LET s == perform_substitutions(r.ctx, Tail(subs))
                  IN  [ok |-> s.ok, str |-> r.str \o s.str, ctx |-> s.ctx,
                       wrote |-> IF s.wrote # Absent THEN s.wrote ELSE r.wrote]

-----------------------------------------------------------------------------
(* SetParametersFromFiles.__init__ *)

\* a variant that swallows the error of an element and goes on with the next
RECURSIVE InitLoopSkipsMalformed(_)
InitLoopSkipsMalformed(filenames) ==
    IF filenames = <<>> THEN Ok(<<>>)
    ELSE LET n == normalize_to_list_of_substitutions(Head(filenames))
             rest == InitLoopSkipsMalformed(Tail(filenames))
         IN  IF n.ok THEN Ok(<<n.val>> \o rest.val) ELSE rest

\* the loop of lines 71-72: the list of normalized filenames, or the error
RECURSIVE InitLoop(_)
InitLoop(filenames) ==
    IF filenames = <<>> THEN Ok(<<>>)
    ELSE LET n == normalize_to_list_of_substitutions(Head(filenames))
         IN  IF ~n.ok THEN Raise
             ELSE LET rest == InitLoop(Tail(filenames))
                  IN  IF rest.ok THEN Ok(<<n.val>> \o rest.val) ELSE Raise

-----------------------------------------------------------------------------
(* SetParametersFromFiles.execute *)

\* The loop of lines 84-86 from the i-th stored filename on.  `list` is the
\* local global_param_list (a reference), `obs` collects what a substitution
\* resolved for each filename sees as global_params, `wrote` the list object a
\* substitution assigned to the key during the call.
\* a variant that does not append a filename the list already holds
RECURSIVE ExecuteLoopDedup(_, _, _, _, _)
ExecuteLoopDedup(ctx, list, input_files, obs, wrote) ==
    IF input_files = <<>>
    THEN [ok |-> TRUE, ctx |-> ctx, obs |-> obs, wrote |-> wrote]
    ELSE LET seen == Append(obs, Value(ctx.cfg, ctx.heap))
             r == perform_substitutions(ctx, Head(input_files))
             w == IF r.wrote # Absent THEN r.wrote ELSE wrote
             held == {r.ctx.heap[list][i] : i \in 1..Len(r.ctx.heap[list])}
         IN  IF ~r.ok
             THEN [ok |-> FALSE, ctx |-> r.ctx, obs |-> seen, wrote |-> w]
             ELSE ExecuteLoopDedup(
                    IF r.str \in held THEN r.ctx
                    ELSE [r.ctx EXCEPT !.heap[list] = Append(r.ctx.heap[list], r.str)],
                    list, Tail(input_files), seen, w)

RECURSIVE ExecuteLoop(_, _, _, _, _)
ExecuteLoop(ctx, list, input_files, obs, wrote) ==
    IF input_files = <<>>
    THEN [ok |-> TRUE, ctx |-> ctx, obs |-> obs, wrote |-> wrote]
    ELSE LET seen == Append(obs, Value(ctx.cfg, ctx.heap))
             r == perform_substitutions(ctx, Head(input_files))
             w == IF r.wrote # Absent THEN r.wrote ELSE wrote
         IN  IF ~r.ok
             THEN [ok |-> FALSE, ctx |-> r.ctx, obs |-> seen, wrote |-> w]
             ELSE ExecuteLoop(
                    [r.ctx EXCEPT !.heap[list] = Append(r.ctx.heap[list], r.str)],
                    list, Tail(input_files), seen, w)

\* a variant that starts from a new empty list whatever the key holds
executeReplaces(input_files, ctx) ==
    LET list == Len(ctx.heap) + 1
        r == ExecuteLoop([ctx EXCEPT !.heap = Append(ctx.heap, <<>>)], list,
                         input_files, <<>>, Absent)
    IN  IF r.ok
        THEN [r EXCEPT !.ctx.cfg = [global_params |-> list]]
        ELSE r

\* a variant that appends the join of no filename, '', for an empty declaration
executeJoinsEmpty(input_files, ctx) ==
    LET present == ctx.cfg.global_params # Absent
        list == IF present THEN ctx.cfg.global_params ELSE Len(ctx.heap) + 1
        ctx1 == IF present THEN ctx ELSE [ctx EXCEPT !.heap = Append(ctx.heap, <<>>)]
        r == ExecuteLoop(ctx1, list, IF input_files = <<>> THEN << <<>> >> ELSE input_files,
                         <<>>, Absent)
    IN  IF r.ok
        THEN [r EXCEPT !.ctx.cfg = [global_params |-> list]]
        ELSE r

\* execute(context): the context after the call, or as the exception leaves it
execute(input_files, ctx) ==
    LET present == ctx.cfg.global_params # Absent
        list == IF present THEN ctx.cfg.global_params ELSE Len(ctx.heap) + 1
        ctx1 == IF present THEN ctx ELSE [ctx EXCEPT !.heap = Append(ctx.heap, <<>>)]
        r == ExecuteLoop(ctx1, list, input_files, <<>>, Absent)
    IN  IF r.ok
        THEN [r EXCEPT !.ctx.cfg = [global_params |-> list]]
        ELSE r

-----------------------------------------------------------------------------
(* State machine *)

Op(op, a, ok) ==
    [op |-> op, a |-> a, ok |-> ok, pre |-> Value(launch_configurations, heap),
     preKey |-> launch_configurations.global_params, env |-> environ,
     obs |-> <<>>, wrote |-> Absent, attr |-> "", args |-> <<>>]

Init ==
    /\ \/ heap = <<>> /\ launch_configurations = [global_params |-> Absent]
       \/ heap = << <<"p.yaml">> >> /\ launch_configurations = [global_params |-> 1]
    /\ stack = <<>>
    /\ environ = BuildEnv
    /\ phase = "build"
    /\ actions = [a \in ActionIds |-> NotBuilt]
    /\ nExec = 0
    /\ nScopes = 0
    /\ last = [op |-> "init", a |-> "A", ok |-> TRUE, pre |-> <<>>, preKey |-> Absent,
               env |-> environ, obs |-> <<>>, wrote |-> Absent, attr |-> "", args |-> <<>>]
    /\ hist = [base |-> Value(launch_configurations, heap), calls |-> <<>>]
    /\ saved = <<>>

\* a variant that resolves the substitutions when the action is constructed
RECURSIVE ResolveNow(_, _)
ResolveNow(subs, env) ==
    IF subs = <<>> THEN <<>>
    ELSE <<IF Head(subs).kind = "EnvironmentVariable"
             THEN TextSubstitution(env) ELSE Head(subs)>> \o ResolveNow(Tail(subs), env)

ConstructEager(a, filenames) ==
    /\ phase = "build"
    /\ ~actions[a].built
    /\ LET r == InitLoop(filenames)
       IN  /\ actions' = IF r.ok
                         THEN [actions EXCEPT ![a] =
                                 [built |-> TRUE,
                                  input_files |-> [i \in 1..Len(r.val) |-> ResolveNow(r.val[i], environ)],
                                  args |-> filenames]]
                         ELSE actions
           /\ last' = [Op("Construct", a, r.ok) EXCEPT !.args = filenames]
    /\ UNCHANGED <<heap, launch_configurations, stack, environ, nExec, nScopes, phase, hist, saved>>

\* SetParametersFromFiles(filenames)
Construct(a, filenames) ==
    /\ phase = "build"
    /\ ~actions[a].built
    /\ LET r == InitLoop(filenames)
       IN  /\ actions' = IF r.ok
                         THEN [actions EXCEPT ![a] = [built |-> TRUE, input_files |-> r.val,
                                                      args |-> filenames]]
                         ELSE actions
           /\ last' = [Op("Construct", a, r.ok) EXCEPT !.args = filenames]
    /\ UNCHANGED <<heap, launch_configurations, stack, environ, nExec, nScopes, phase, hist, saved>>

\* a variant in which execute consumes the stored filenames
ExecuteConsumes(a) ==
    /\ phase = "run"
    /\ actions[a].built
    /\ nExec < MaxExec
    /\ LET r == execute(actions[a].input_files, Ctx(launch_configurations, heap, environ))
       IN  /\ heap' = r.ctx.heap
           /\ launch_configurations' = r.ctx.cfg
           /\ last' = [Op("Execute", a, r.ok) EXCEPT !.obs = r.obs, !.wrote = r.wrote]
           /\ hist' = IF r.ok
                      THEN [hist EXCEPT !.calls = Append(@, [a |-> a, env |-> environ])]
                      ELSE [base |-> Value(r.ctx.cfg, r.ctx.heap), calls |-> <<>>]
    /\ nExec' = nExec + 1
    /\ actions' = [actions EXCEPT ![a].input_files = <<>>]
    /\ UNCHANGED <<stack, environ, nScopes, phase, saved>>

\* action.execute(context)
Execute(a) ==
    /\ phase = "run"
    /\ actions[a].built
    /\ nExec < MaxExec
    /\ LET r == execute(actions[a].input_files, Ctx(launch_configurations, heap, environ))
       IN  /\ heap' = r.ctx.heap
           /\ launch_configurations' = r.ctx.cfg
           /\ last' = [Op("Execute", a, r.ok) EXCEPT !.obs = r.obs, !.wrote = r.wrote]
           /\ hist' = IF r.ok
                      THEN [hist EXCEPT !.calls = Append(@, [a |-> a, env |-> environ])]
                      ELSE [base |-> Value(r.ctx.cfg, r.ctx.heap), calls |-> <<>>]
    /\ nExec' = nExec + 1
    /\ UNCHANGED <<stack, environ, actions, nScopes, phase, saved>>

\* Parser.parse_substitution of the frontend on an attribute's text: the
\* list of substitutions the text denotes.
parse_substitution(text) ==
    IF text = "${ENV_VAR}" THEN <<EnvironmentVariable>> ELSE <<TextSubstitution(text)>>

\* SetParametersFromFiles.parse(entity, parser): the kwargs it returns
parse(attr) == [filename |-> parse_substitution(attr)]

\* cls(**kwargs) as Python binds it to __init__(self, filenames, **kwargs):
\* without the required argument `filenames` the call raises TypeError.
ConstructFromKwargs(kwargs) ==
    IF "filenames" \in DOMAIN kwargs
    THEN InitLoop([i \in 1..Len(kwargs["filenames"]) |-> PySub(kwargs["filenames"][i])])
    ELSE Raise

\* the frontend loads an entity: parse, then construct from what parse returned
Load(a, attr) ==
    /\ phase = "build"
    /\ ~actions[a].built
    /\ LET kwargs == parse(attr)
           r == ConstructFromKwargs(kwargs)
       IN  /\ actions' = IF r.ok
                         THEN [actions EXCEPT ![a] = [built |-> TRUE, input_files |-> r.val,
                                                      args |-> kwargs["filenames"]]]
                         ELSE actions
           /\ last' = [Op("Load", a, r.ok) EXCEPT !.attr = attr]
    /\ UNCHANGED <<heap, launch_configurations, stack, environ, nExec, nScopes, phase, hist, saved>>

\* the launch service starts executing the description
Launch ==
    /\ phase = "build"
    /\ phase' = "run"
    /\ last' = Op("Launch", "A", TRUE)
    /\ UNCHANGED <<heap, launch_configurations, stack, environ, actions, nExec, nScopes, hist, saved>>

\* the engine enters a group scope: it saves a copy of the mapping
\* (dict.copy(): the values, list references included, are not copied)
PushScope ==
    /\ phase = "run"
    /\ nScopes < MaxScopes
    /\ nScopes' = nScopes + 1
    /\ stack' = Append(stack, launch_configurations)
    /\ saved' = Append(saved, Value(launch_configurations, heap))
    /\ last' = Op("PushScope", "A", TRUE)
    /\ UNCHANGED <<heap, launch_configurations, environ, actions, nExec, phase, hist>>

\* the engine leaves the scope: the saved mapping becomes the current one
PopScope ==
    /\ stack # <<>>
    /\ launch_configurations' = stack[Len(stack)]
    /\ stack' = SubSeq(stack, 1, Len(stack) - 1)
    /\ saved' = SubSeq(saved, 1, Len(saved) - 1)
    /\ last' = [Op("PopScope", "A", TRUE) EXCEPT !.pre = saved[Len(saved)]]
    /\ hist' = [base |-> Value(stack[Len(stack)], heap), calls |-> <<>>]
    /\ UNCHANGED <<heap, environ, actions, nExec, nScopes, phase>>

\* the environment changes between two steps of the launch
SetEnv(v) ==
    /\ phase = "run"
    /\ v # environ
    /\ environ' = v
    /\ UNCHANGED <<heap, launch_configurations, stack, actions, nExec, nScopes, phase, last, hist, saved>>

\* a launch whose description has no group
Next ==
    \/ \E a \in ActionIds, f \in Filenames : Construct(a, f)
    \/ \E a \in ActionIds, t \in EntityAttrs : Load(a, t)
    \/ Launch
    \/ \E a \in ActionIds : Execute(a)
    \/ \E v \in EnvValues : SetEnv(v)

Spec == Init /\ [][Next]_vars

\* a launch whose description has groups
NextScoped ==
    \/ \E a \in ActionIds, f \in Filenames : Construct(a, f)
    \/ Launch
    \/ \E a \in ActionIds : Execute(a)
    \/ \E v \in EnvValues : SetEnv(v)
    \/ PushScope
    \/ PopScope

SpecScoped == Init /\ [][NextScoped]_vars

-----------------------------------------------------------------------------
(* Properties *)

\* global_params as a node reads it in the current state
Params == Value(launch_configurations, heap)

\* resolve(f): the filename one element of `filenames` denotes when ENV_VAR = env
RECURSIVE JoinElems(_, _)
JoinElems(elems, env) ==
    IF elems = <<>> THEN ""
    ELSE (IF Head(elems).kind = "EnvironmentVariable" THEN env ELSE Head(elems).arg)
         \o JoinElems(Tail(elems), env)

Resolved(filenames, env) ==
    [i \in 1..Len(filenames) |-> JoinElems(filenames[i].elems, env)]

UsesEnv(filenames) ==
    \E i \in 1..Len(filenames) : \E j \in 1..Len(filenames[i].elems) :
        filenames[i].elems[j].kind = "EnvironmentVariable"

UsesWriter(filenames) ==
    \E i \in 1..Len(filenames) : \E j \in 1..Len(filenames[i].elems) :
        filenames[i].elems[j].kind = "ConfigWriter"

\* an element that is neither text nor a substitution (nor a list of them)
Malformed(filenames) ==
    \E i \in 1..Len(filenames) :
        \/ filenames[i].type \notin {"str", "Substitution", "list"}
        \/ \E j \in 1..Len(filenames[i].elems) :
               filenames[i].elems[j].kind \notin SubstitutionKinds \cup {"str"}

\* the filenames the calls of `calls` resolve to, in call order
RECURSIVE ResolvedCalls(_)
ResolvedCalls(calls) ==
    IF calls = <<>> THEN <<>>
    ELSE Resolved(actions[Head(calls).a].args, Head(calls).env) \o ResolvedCalls(Tail(calls))

RECURSIVE Repeat(_, _)
Repeat(seq, k) == IF k = 0 THEN <<>> ELSE seq \o Repeat(seq, k - 1)

Executed == last.op = "Execute"

-----------------------------------------------------------------------------
\* C1: after Construct(filenames), filenames non-empty, and one Execute that
\* returns, global_params is its prior value P (absent: the empty sequence)
\* followed by resolve(f1), ..., resolve(fn) in declaration order, duplicates kept.
C1_AppendsInOrder ==
    (Executed /\ last.ok /\ actions[last.a].args # <<>>)
        => Params = last.pre \o Resolved(actions[last.a].args, last.env)

\* the declaration ["b.yaml", "a.yaml", "b.yaml"] executed on ["p.yaml"]
C1_Witness ==
    /\ Executed /\ last.ok
    /\ last.pre = <<"p.yaml">>
    /\ Resolved(actions[last.a].args, last.env) = <<"b.yaml", "a.yaml", "b.yaml">>

\* C2: the kwargs parse returns for filename="${ENV_VAR}" are accepted by the
\* constructor and yield a declaration of exactly one filename.
C2_ParsedEntityConstructs ==
    (last.op = "Load" /\ last.attr = "${ENV_VAR}")
        => /\ last.ok
           /\ actions[last.a].built
           /\ Len(actions[last.a].input_files) = 1

\* C3: once a scope is left, an outer node sees global_params as it was when
\* the scope was entered: nothing appended inside the scope is in it.
C3_ScopeIsolated ==
    last.op = "PopScope" => Params = last.pre

\* C4: after any sequence of Execute calls that returned, global_params is the
\* value P it had before them followed by each call's resolved filenames in
\* call order.
C4_Accumulates ==
    Params = hist.base \o ResolvedCalls(hist.calls)

\* two different declarations executed one after the other
C4_Witness ==
    /\ Len(hist.calls) >= 2
    /\ hist.calls[1].a # hist.calls[2].a
    /\ actions[hist.calls[1].a].args = <<PyStr("x.yaml")>>
    /\ actions[hist.calls[2].a].args # <<>>
    /\ Executed /\ last.ok

\* C5: k Execute calls of the same declaration under the same environment
\* append its resolved filenames k times; execute leaves the stored
\* substitution sequences as they were.
SameCalls ==
    /\ Len(hist.calls) >= 2
    /\ \A i \in 1..Len(hist.calls) : hist.calls[i] = hist.calls[1]

C5_AppendedEachTime ==
    SameCalls => Params = hist.base \o Repeat(Resolved(actions[hist.calls[1].a].args,
                                                       hist.calls[1].env),
                                              Len(hist.calls))

C5_NotIdempotent ==
    /\ []C5_AppendedEachTime
    /\ [][\A a \in ActionIds : actions[a].built => actions'[a] = actions[a]]_vars

C5_Witness ==
    /\ SameCalls
    /\ actions[hist.calls[1].a].args # <<>>
    /\ Executed /\ last.ok

\* C6 as stated: Execute of a declaration with no filenames changes nothing of
\* the context's global_params, the key being absent included.
C6_NoChange ==
    (Executed /\ actions[last.a].args = <<>>)
        => launch_configurations.global_params = last.preKey /\ Params = last.pre

\* C6 as the code has it: the sequence a reader gets is unchanged and a list
\* the key held stays the list it holds, but an absent key is created, holding
\* an empty sequence.
C6_NoChangeOfValue ==
    (Executed /\ actions[last.a].args = <<>>)
        => /\ last.ok
           /\ Params = last.pre
           /\ launch_configurations.global_params # Absent
           /\ last.preKey # Absent => launch_configurations.global_params = last.preKey

C6_Witness ==
    Executed /\ actions[last.a].args = <<>> /\ last.preKey = Absent

\* C7: Construct with a malformed element fails, produces no action and
\* changes no context; no declaration with a malformed element ever exists.
C7_MalformedStep ==
    \A a \in ActionIds, f \in Filenames :
        (Construct(a, f) /\ Malformed(f))
            => /\ ~last'.ok
               /\ actions' = actions
               /\ UNCHANGED <<heap, launch_configurations, stack>>

C7_MalformedFails ==
    /\ [](\A a \in ActionIds : actions[a].built => ~Malformed(actions[a].args))
    /\ [](last.op = "Construct" => (last.ok <=> ~Malformed(last.args)))
    /\ [][C7_MalformedStep]_vars

\* ["x.yaml", 7]: the first element is normalized before the second fails
C7_Witness ==
    /\ last.op = "Construct" /\ ~last.ok
    /\ Len(last.args) = 2
    /\ ~actions[last.a].built

\* C8: an Execute whose k-th resolution raises leaves global_params exactly as
\* it was before the call.
C8_AllOrNothing ==
    (Executed /\ ~last.ok /\ ~UsesWriter(actions[last.a].args))
        => Params = last.pre

\* C9: no substitution resolved during Execute sees a partially updated
\* global_params, and a list a substitution assigned to the key during the
\* call is the one the key still holds after it.
C9_NoStalenessWindow ==
    Executed
        => /\ \A i \in 1..Len(last.obs) : last.obs[i] = last.pre
           /\ (last.ok /\ last.wrote # Absent)
                 => launch_configurations.global_params = last.wrote

\* C10: Construct resolves nothing (the stored sequences still hold the
\* EnvironmentVariable substitution); an Execute resolves against the
\* environment of that moment: it raises exactly when ENV_VAR is unset then,
\* and what it appends is the value ENV_VAR has then, whatever it was at
\* construction.
StoresEnv(input_files) ==
    \E i \in 1..Len(input_files) : \E j \in 1..Len(input_files[i]) :
        input_files[i][j].kind = "EnvironmentVariable"

C10_ResolvedAtExecute ==
    /\ \A a \in ActionIds :
          actions[a].built => (StoresEnv(actions[a].input_files) <=> UsesEnv(actions[a].args))
    /\ (Executed /\ UsesEnv(actions[last.a].args))
          => /\ last.ok <=> last.env # Unset
             /\ last.ok =>
                  /\ SubSeq(Params, Len(last.pre) + 1, Len(Params))
                        = Resolved(actions[last.a].args, last.env)
                  /\ last.env # BuildEnv =>
                        SubSeq(Params, Len(last.pre) + 1, Len(Params))
                           # Resolved(actions[last.a].args, BuildEnv)

\* constructed under ENV_VAR=/etc/p.yaml, executed under ENV_VAR=q.yaml
C10_Witness ==
    /\ Executed /\ last.ok
    /\ UsesEnv(actions[last.a].args)
    /\ last.env = "q.yaml"

====
